---- MODULE Spec2Model ----
(***************************************************************************)
(* Cart -> order materialisation and payment settlement of nexus_commerce. *)
(*                                                                         *)
(* The persistent store is PostgreSQL (settings_ci.py, settings_production)*)
(* at its default READ COMMITTED isolation.  The committed rows are the    *)
(* variables stock, price, carts, cartItems, orders, orderItems, payments. *)
(* Every HTTP request is handled by a worker r \in Reqs; pc[r] is the      *)
(* statement the worker executes next and rq[r] holds its Python locals    *)
(* together with the writes of its open transaction, which other workers   *)
(* cannot see until the commit step applies them.  A row written by an     *)
(* open transaction is locked: a second writer waits (its action is        *)
(* disabled) until the first commits or rolls back.                        *)
(*                                                                         *)
(* Money is counted in integer cents, so quantity * price is exact.        *)
(***************************************************************************)
EXTENDS Integers, FiniteSets, Sequences, TLC

Users == {"u1", "u2"}
Products == {"p1", "p2"}
Reqs == {"r1", "r2"}
Addresses == {"a1", "a2"}
NoAddr == "none"
\* An address id that names no row.
NoSuchAddr == "a0"
\* request.data.get("billing_address") / get("shipping_address")
AddressInputs == Addresses \cup {NoAddr, NoSuchAddr}
TransactionIds == {"t1", "t2"}

MaxStock == 2
MaxPrice == 1
MaxQty == 2
MaxRequests == 2

NullPrice == -1

\* Primary keys: the rows of the initial state and one row per request.
CartIds == 1..(2 + MaxRequests)
ItemIds == 1..(4 + MaxRequests)
OrderIds == 1..(1 + MaxRequests)

\* Address.user: every address belongs to exactly one user.
AddressUser(a) == IF a = "a1" THEN "u1" ELSE "u2"

\* Product.Meta.ordering = ['name'] / CartItem.Meta.ordering = ['product__name']
ProdIdx(p) == IF p = "p1" THEN 1 ELSE 2
UserIdx(u) == IF u = "u1" THEN 1 ELSE 2
ReqIdx(r) == IF r = "r1" THEN 1 ELSE 2

VARIABLES stock, price, carts, cartItems, orders, orderItems, payments, pc, rq, out, started

dbvars == <<stock, price, carts, cartItems, orders, orderItems, payments>>
vars == <<stock, price, carts, cartItems, orders, orderItems, payments, pc, rq, out, started>>

ZeroDec == [p \in Products |-> 0]

\* Locals and open-transaction writes of a worker that handles no request.
IdleReq ==
  [kind |-> "none", user |-> "none", cart |-> 0, product |-> "none",
   quantity |-> 0, pstock |-> 0, pprice |-> 0, item |-> <<>>, lines |-> <<>>,
   k |-> 0, newCart |-> FALSE, dec |-> ZeroDec, newStock |-> ZeroDec, order |-> <<>>,
   oitems |-> {},
   cartOff |-> FALSE, delItems |-> {}, raced |-> FALSE, newUser |-> "none",
   pay |-> <<>>]

\* out is the response that the last step returned, NoOut when it returned
\* none, with the cart, product and quantity of the request it answers.
NoOut ==
  [kind |-> "none", user |-> "none", resp |-> "none", detail |-> {}, cart |-> 0,
   product |-> "none", quantity |-> 0, raced |-> FALSE]

----------------------------------------------------------------------------
(* Store helpers *)

Min(S) == CHOOSE x \in S : \A y \in S : x <= y

ActiveCarts(u) == {c \in carts : c.user = u /\ c.is_active}

ItemsOf(c) == {i \in cartItems : i.cart = c}

\* Row ids held in some worker's locals or open transaction (a UUID is never reused).
CartIdsInUse == {c.id : c \in carts} \cup {rq[r].cart : r \in Reqs}

ItemIdsInUse ==
  {i.id : i \in cartItems}
    \cup UNION {{rq[r].item[n].id : n \in DOMAIN rq[r].item} : r \in Reqs}
    \cup UNION {{rq[r].lines[n].id : n \in DOMAIN rq[r].lines} : r \in Reqs}
    \cup UNION {rq[r].delItems : r \in Reqs}

FreeCartIds == CartIds \ CartIdsInUse
FreeItemIds == ItemIds \ ItemIdsInUse
OrderIdsInUse ==
  {o.id : o \in orders} \cup UNION {{rq[r].order[n].id : n \in DOMAIN rq[r].order} : r \in Reqs}

FreeOrderIds == OrderIds \ OrderIdsInUse

\* Row locks of open transactions, as seen by worker r (dec[p] is what the
\* open transaction of a worker has taken off product p so far).
ProductLocked(p, r) == \E r2 \in Reqs \ {r} : rq[r2].dec[p] > 0
CartLocked(c, r) == \E r2 \in Reqs \ {r} : rq[r2].cartOff /\ rq[r2].cart = c
ItemLocked(i, r) == \E r2 \in Reqs \ {r} : i \in rq[r2].delItems
\* An uncommitted INSERT holds its unique-index entry: a second INSERT of the key waits.
CartInsertPending(u, r) == \E r2 \in Reqs \ {r} : rq[r2].newCart /\ rq[r2].user = u

\* Cart.Meta.constraints: unique_active_cart_per_user (partial unique index).
UniqueActiveCartViolated(u) == ActiveCarts(u) # {}

\* CartItem.Meta.constraints: unique_cart_product.
UniqueCartProductViolated(c, p) == \E i \in cartItems : i.cart = c /\ i.product = p

\* A stock column without the CHECK accepts every value.
StockNeverChecked(newStock) == FALSE

\* Product.stock_quantity is a PositiveIntegerField: CHECK (stock_quantity >= 0).
StockCheckViolated(newStock) == newStock < 0

\* The response is returned and the worker is free: its locals are dropped.
Finish(r, l, resp, detail) ==
  /\ pc' = [pc EXCEPT ![r] = "idle"]
  /\ rq' = [rq EXCEPT ![r] = IdleReq]
  /\ out' = [kind |-> l.kind, user |-> l.user, resp |-> resp, detail |-> detail,
             cart |-> l.cart, product |-> l.product, quantity |-> l.quantity,
             raced |-> l.raced]

Goto(r, label, l) ==
  /\ pc' = [pc EXCEPT ![r] = label]
  /\ rq' = [rq EXCEPT ![r] = l]
  /\ out' = NoOut

\* Worker r executes the statement at label.
At(r, label) ==
  /\ pc[r] = label
  /\ UNCHANGED started

\* The first free worker picks up the next request (the workers are
\* interchangeable; the model follows MaxRequests requests).
Accept(r) ==
  /\ pc[r] = "idle"
  /\ \A r2 \in Reqs : pc[r2] = "idle" => ReqIdx(r) <= ReqIdx(r2)
  /\ started < MaxRequests
  /\ started' = started + 1

NewReq(kind, u) == [IdleReq EXCEPT !.kind = kind, !.user = u]

InsertCart(id, u) == carts \cup {[id |-> id, user |-> u, is_active |-> TRUE]}

----------------------------------------------------------------------------
(* CartViewSet *)

\* my_cart: Cart.objects.get_or_create(user=request.user, is_active=True): the get.
McGet(r, u) ==
  /\ Accept(r)
  /\ IF ActiveCarts(u) # {}
       THEN Finish(r, NewReq("my_cart", u), "200", {})
       ELSE Goto(r, "mc_create", NewReq("my_cart", u))
  /\ UNCHANGED dbvars

\* A store without the partial unique index accepts every cart.
CartInsertNeverRejected(u) == FALSE

\* The INSERT of a new active cart in autocommit: TRUE when the unique index rejects it.
CartInsertRejected(u) == UniqueActiveCartViolated(u)

\* my_cart: get_or_create's INSERT, committed at once (the view opens no
\* transaction); on IntegrityError get_or_create reads the row again.
McCreate(r) ==
  /\ At(r, "mc_create")
  /\ ~CartInsertPending(rq[r].user, r)
  /\ IF CartInsertRejected(rq[r].user)
       THEN /\ Finish(r, rq[r], "200", {})
            /\ UNCHANGED dbvars
       ELSE /\ carts' = InsertCart(Min(FreeCartIds), rq[r].user)
            /\ Finish(r, rq[r], "200", {})
            /\ UNCHANGED <<stock, price, cartItems, orders, orderItems, payments>>

\* CartViewSet.perform_create: the exists() check.
CcCheck(r, u) ==
  /\ Accept(r)
  /\ IF ActiveCarts(u) # {}
       THEN Finish(r, NewReq("cart_create", u), "500_value_error", {})
       ELSE Goto(r, "cc_save", NewReq("cart_create", u))
  /\ UNCHANGED dbvars

\* CartViewSet.perform_create: serializer.save(user=request.user).
CcSave(r) ==
  /\ At(r, "cc_save")
  /\ ~CartInsertPending(rq[r].user, r)
  /\ IF CartInsertRejected(rq[r].user)
       THEN /\ Finish(r, rq[r], "500_integrity_error", {})
            /\ UNCHANGED dbvars
       ELSE /\ carts' = InsertCart(Min(FreeCartIds), rq[r].user)
            /\ Finish(r, rq[r], "201", {})
            /\ UNCHANGED <<stock, price, cartItems, orders, orderItems, payments>>

----------------------------------------------------------------------------
(* CartItemViewSet.perform_create, preceded by CartItemSerializer validation *)

\* CartItemSerializer.validate_quantity and validate (the Product instance of
\* validated_data is read here and its stock and price are used from then on),
\* then perform_create line 69: get_or_create, the get.
AiBegin(r, u, p, q) ==
  /\ Accept(r)
  /\ LET l == [NewReq("add_item", u) EXCEPT !.product = p, !.quantity = q,
                                            !.pstock = stock[p], !.pprice = price[p]] IN
     IF q < 1 THEN Finish(r, l, "400_quantity", {})
     ELSE IF q > stock[p] THEN Finish(r, l, "400_insufficient_stock", {})
     ELSE IF ActiveCarts(u) # {}
       THEN \E c \in ActiveCarts(u) : Goto(r, "ai_item", [l EXCEPT !.cart = c.id])
       ELSE Goto(r, "ai_cart_create", l)
  /\ UNCHANGED dbvars

\* perform_create line 69: get_or_create, the INSERT inside the open transaction.
AiCartCreate(r) ==
  /\ At(r, "ai_cart_create")
  /\ ~CartInsertPending(rq[r].user, r)
  /\ IF UniqueActiveCartViolated(rq[r].user)
       THEN \E c \in ActiveCarts(rq[r].user) : Goto(r, "ai_item", [rq[r] EXCEPT !.cart = c.id])
       ELSE Goto(r, "ai_item", [rq[r] EXCEPT !.cart = Min(FreeCartIds), !.newCart = TRUE])
  /\ UNCHANGED dbvars

\* A check that compares the quantity added alone, whatever the line holds.
AddedExceedsStock(r, existing) == rq[r].quantity > rq[r].pstock

\* views.py 77-79 and 91: new_quantity > product.stock_quantity, where existing
\* is the quantity of the line found (0 when there is none) and the stock is
\* that of the Product object of validated_data.
LineExceedsStock(r, existing) == existing + rq[r].quantity > rq[r].pstock

\* perform_create lines 73-94: CartItem.objects.get and the stock checks; a
\* ValidationError leaves the atomic block, which rolls the new cart back.
AiItem(r) ==
  /\ At(r, "ai_item")
  /\ LET found == {i \in cartItems : i.cart = rq[r].cart /\ i.product = rq[r].product} IN
     IF found = {}
       THEN IF LineExceedsStock(r, 0)
              THEN Finish(r, rq[r], "400_insufficient_stock", {})
              ELSE Goto(r, "ai_write", rq[r])
       ELSE IF Cardinality(found) > 1
              THEN Finish(r, rq[r], "500_multiple_objects", {})
              ELSE \E i \in found :
                     IF LineExceedsStock(r, i.quantity)
                       THEN Finish(r, rq[r], "400_insufficient_stock", {})
                       ELSE Goto(r, "ai_write", [rq[r] EXCEPT !.item = <<i>>])
  /\ UNCHANGED dbvars

\* An add that sets the quantity of an existing line to the quantity added.
ItemToWriteOverwrites(r) ==
  IF rq[r].item # <<>>
    THEN [id |-> rq[r].item[1].id, cart |-> rq[r].item[1].cart, product |-> rq[r].item[1].product,
          quantity |-> rq[r].quantity, price_at_time |-> rq[r].pprice]
    ELSE [id |-> Min(FreeItemIds), cart |-> rq[r].cart, product |-> rq[r].product,
          quantity |-> rq[r].quantity, price_at_time |-> rq[r].pprice]

\* An add that writes a new line without snapshot.
ItemToWriteWithoutSnapshot(r) ==
  IF rq[r].item # <<>>
    THEN [id |-> rq[r].item[1].id, cart |-> rq[r].item[1].cart, product |-> rq[r].item[1].product,
          quantity |-> rq[r].item[1].quantity + rq[r].quantity, price_at_time |-> rq[r].pprice]
    ELSE [id |-> Min(FreeItemIds), cart |-> rq[r].cart, product |-> rq[r].product,
          quantity |-> rq[r].quantity, price_at_time |-> NullPrice]

\* The row that perform_create writes: lines 84-86 for an existing line
\* (quantity added, snapshot refreshed), line 95 for a new one.
ItemToWrite(r) ==
  IF rq[r].item # <<>>
    THEN [id |-> rq[r].item[1].id, cart |-> rq[r].item[1].cart, product |-> rq[r].item[1].product,
          quantity |-> rq[r].item[1].quantity + rq[r].quantity, price_at_time |-> rq[r].pprice]
    ELSE [id |-> Min(FreeItemIds), cart |-> rq[r].cart, product |-> rq[r].product,
          quantity |-> rq[r].quantity, price_at_time |-> rq[r].pprice]

\* A cart write that reserves the quantity of the line by taking it off the stock.
StockReservedByLineWrite(w) == [stock EXCEPT ![w.product] = @ - w.quantity]

\* The product rows after a cart item write: cart_item.save() and
\* serializer.save() write the CartItem row and no Product row.
StockAfterLineWrite(w) == stock

\* perform_create lines 84-86 or 95, and the commit of transaction.atomic.
\* cart_item.save() issues UPDATE ... WHERE id and falls back to an INSERT when
\* no row matches; serializer.save() issues an INSERT.  The store rejects a
\* line whose cart row is gone (foreign key) or whose (cart, product) exists.
AiWrite(r) ==
  /\ At(r, "ai_write")
  /\ LET w == ItemToWrite(r) IN
     /\ ~ItemLocked(w.id, r)
     /\ IF /\ rq[r].newCart \/ \E c \in carts : c.id = w.cart
           /\ (\E j \in cartItems : j.id = w.id) \/ ~UniqueCartProductViolated(w.cart, w.product)
          THEN /\ cartItems' = {j \in cartItems : j.id # w.id} \cup {w}
               /\ carts' = IF rq[r].newCart THEN InsertCart(rq[r].cart, rq[r].user) ELSE carts
               /\ stock' = StockAfterLineWrite(w)
               /\ Finish(r, rq[r], "201", {})
               /\ UNCHANGED <<price, orders, orderItems, payments>>
          ELSE /\ Finish(r, rq[r], "500_integrity_error", {})
               /\ UNCHANGED dbvars

----------------------------------------------------------------------------
(* CartItemViewSet: perform_update and the destroy of ModelViewSet *)

NoProduct == "none"
NoCart == 0

\* get_queryset (views.py 56-61): the lines of the user's active cart.
OwnItems(u) == {i \in cartItems : \E c \in ActiveCarts(u) : i.cart = c.id}

\* CartItemSerializer.validate on the attrs of a PATCH: the stock is compared
\* only when the request carries a product (attrs.get("product")).
PatchInvalid(p, q) ==
  IF q < 1 THEN "400_quantity"
  ELSE IF p # NoProduct /\ q > stock[p] THEN "400_insufficient_stock"
  ELSE "ok"

\* PATCH /carts/items/{id}/ {quantity[, product][, cart]}: get_object on
\* get_queryset, the validation, and CartItemSerializer.update on the instance
\* in memory (price_at_time = the price of the product given, else of
\* instance.product, which select_related read with the line).  cart is a
\* writable field of the serializer (Meta.read_only_fields does not list it):
\* the id of any cart row is valid and update assigns it to the line.
IuLoad(r, u, id, p, q, c) ==
  /\ Accept(r)
  /\ LET l == [NewReq("item_update", u) EXCEPT !.quantity = q] IN
     IF ~\E i \in OwnItems(u) : i.id = id THEN Finish(r, l, "404", {})
     ELSE \E i \in {j \in OwnItems(u) : j.id = id} :
            LET np == IF p # NoProduct THEN p ELSE i.product
                nc == IF c # NoCart THEN c ELSE i.cart
                v == PatchInvalid(p, q) IN
            IF v # "ok" THEN Finish(r, [l EXCEPT !.cart = i.cart, !.product = np], v, {})
            ELSE Goto(r, "iu_save",
                      [l EXCEPT !.cart = i.cart, !.product = np, !.pstock = stock[np],
                                !.pprice = price[np],
                                !.item = <<[i EXCEPT !.cart = nc, !.product = np, !.quantity = q,
                                                     !.price_at_time = price[np]]>>])
  /\ UNCHANGED dbvars

\* perform_update (views.py 103), serializer.save(): instance.save() is an
\* UPDATE of every column WHERE id, and an INSERT when no row has the id.
IuSave(r) ==
  /\ At(r, "iu_save")
  /\ LET w == rq[r].item[1] IN
     /\ ~ItemLocked(w.id, r)
     /\ IF /\ \E c \in carts : c.id = w.cart
           /\ ~\E j \in cartItems : j.id # w.id /\ j.cart = w.cart /\ j.product = w.product
          THEN /\ cartItems' = {j \in cartItems : j.id # w.id} \cup {w}
               /\ stock' = StockAfterLineWrite(w)
               /\ Finish(r, rq[r], "200", {})
               /\ UNCHANGED <<price, carts, orders, orderItems, payments>>
          ELSE /\ Finish(r, rq[r], "500_integrity_error", {})
               /\ UNCHANGED dbvars

\* DELETE /carts/items/{id}/: get_object on get_queryset and instance.delete().
ItemDelete(r, u, id) ==
  /\ Accept(r)
  /\ LET l == NewReq("item_delete", u) IN
     IF ~\E i \in OwnItems(u) : i.id = id
       THEN /\ Finish(r, l, "404", {})
            /\ UNCHANGED dbvars
       ELSE \E i \in {j \in OwnItems(u) : j.id = id} :
              /\ ~ItemLocked(id, r)
              /\ cartItems' = cartItems \ {i}
              /\ Finish(r, [l EXCEPT !.cart = i.cart, !.product = i.product], "204", {})
              /\ UNCHANGED <<stock, price, carts, orders, orderItems, payments>>

----------------------------------------------------------------------------
(* OrderViewSet.create_from_cart *)

RECURSIVE SeqOf(_)
\* The rows of a queryset in Meta.ordering (product name, then row id).
SeqOf(S) ==
  IF S = {} THEN <<>>
  ELSE LET x == CHOOSE x \in S : \A y \in S :
                  \/ ProdIdx(x.product) < ProdIdx(y.product)
                  \/ ProdIdx(x.product) = ProdIdx(y.product) /\ x.id <= y.id
       IN <<x>> \o SeqOf(S \ {x})

\* item.price_at_time or item.product.price: Python's `or` takes the right
\* operand when the left one is None or Decimal('0.00').
UnitPrice(line) ==
  IF line.price_at_time = NullPrice \/ line.price_at_time = 0
    THEN line.price ELSE line.price_at_time

RECURSIVE TotalOf(_)
\* views.py 98-101: sum(item.quantity * (item.price_at_time or item.product.price))
TotalOf(lines) ==
  IF lines = <<>> THEN 0
  ELSE Head(lines).quantity * UnitPrice(Head(lines)) + TotalOf(Tail(lines))

\* A check that stops at the first line whose quantity exceeds the stock read.
InsufficientFirst(lines) ==
  LET bad == {m \in DOMAIN lines : lines[m].quantity > lines[m].stock} IN
  {[product |-> lines[n].product, available |-> lines[n].stock] :
      n \in {m \in bad : \A m2 \in bad : m <= m2}}

\* views.py 86-90: the list of lines whose quantity exceeds the stock read.
Insufficient(lines) ==
  {[product |-> lines[n].product, available |-> lines[n].stock] :
      n \in {m \in DOMAIN lines : lines[m].quantity > lines[m].stock}}

\* A lookup of the addresses by id alone, whoever they belong to.
AddressesExist(u, bill, ship) ==
  /\ bill \in Addresses
  /\ ship # NoAddr => ship \in Addresses

\* views.py 72-83: Address.objects.get(id=..., user=user) for billing and shipping.
AddressesFound(u, bill, ship) ==
  /\ bill \in Addresses /\ AddressUser(bill) = u
  /\ ship # NoAddr => (ship \in Addresses /\ AddressUser(ship) = u)

\* Order items priced at the product's price of the moment, not at the snapshot.
OrderItemsAtProductPrice(lines) ==
  {[product |-> lines[n].product, quantity |-> lines[n].quantity,
    price |-> lines[n].price] : n \in DOMAIN lines}

\* views.py 116-121: one OrderItem per cart item.
OrderItemsOf(lines) ==
  {[product |-> lines[n].product, quantity |-> lines[n].quantity,
    price |-> UnitPrice(lines[n])] : n \in DOMAIN lines}

\* OrderItem.Meta.constraints: unique_order_item, checked by bulk_create.
UniqueOrderItemViolated(lines) ==
  \E m, n \in DOMAIN lines : m # n /\ lines[m].product = lines[n].product

\* Checks that ask for the billing address before they look at the cart.
ValidateBillingFirst(u, bill, ship, lines) ==
  IF bill = NoAddr THEN "400_billing_required"
  ELSE IF lines = <<>> THEN "400_empty_cart"
  ELSE IF ~(/\ bill \in Addresses /\ AddressUser(bill) = u
            /\ ship # NoAddr => (ship \in Addresses /\ AddressUser(ship) = u))
    THEN "400_address_not_found"
  ELSE IF {m \in DOMAIN lines : lines[m].quantity > lines[m].stock} # {}
    THEN "400_insufficient_stock"
  ELSE "ok"

\* views.py 57-111 on the objects read: the checks in their order, the total
\* and the Order row.  The result is the response of an early return, or "ok".
Validate(u, bill, ship, lines) ==
  IF lines = <<>> THEN "400_empty_cart"
  ELSE IF bill = NoAddr THEN "400_billing_required"
  ELSE IF ~AddressesFound(u, bill, ship) THEN "400_address_not_found"
  ELSE IF Insufficient(lines) # {} THEN "400_insufficient_stock"
  ELSE "ok"

\* views.py 55: Cart.objects.filter(user=user, is_active=True)
\* .prefetch_related("items__product").first() reads the cart, its items and
\* their products; views.py 57-111 then run on the objects read, up to
\* Order.objects.create inside the transaction.
CoLoad(r, u, bill, ship) ==
  /\ Accept(r)
  /\ LET l == NewReq("checkout", u) IN
     IF ActiveCarts(u) = {}
       THEN Finish(r, l, "400_empty_cart", {})
       ELSE \E c \in ActiveCarts(u) :
              LET rows == SeqOf(ItemsOf(c.id))
                  lines == [n \in DOMAIN rows |->
                              [id |-> rows[n].id, product |-> rows[n].product,
                               quantity |-> rows[n].quantity,
                               price_at_time |-> rows[n].price_at_time,
                               stock |-> stock[rows[n].product],
                               price |-> price[rows[n].product]]]
                  v == Validate(u, bill, ship, lines)
              IN
              IF v # "ok"
                THEN Finish(r, [l EXCEPT !.cart = c.id], v,
                            IF v = "400_insufficient_stock" THEN Insufficient(lines) ELSE {})
                ELSE Goto(r, "co_dec",
                          [l EXCEPT !.cart = c.id, !.lines = lines, !.k = 1,
                                    !.order = <<[id |-> 0, user |-> u,
                                                 shipping_address |-> IF ship # NoAddr THEN ship ELSE bill,
                                                 billing_address |-> bill,
                                                 total_amount |-> TotalOf(lines),
                                                 status |-> "pending",
                                                 payment_status |-> "pending"]>>])
  /\ UNCHANGED dbvars

\* The product row as transaction r sees it: its own write, or the committed row.
StockSeen(r, p) == IF rq[r].dec[p] > 0 THEN rq[r].newStock[p] ELSE stock[p]

\* A decrement that reads the stock from the Product object loaded at line 55.
NewStockCached(r, line) == line.stock - line.quantity

\* views.py 122: stock_quantity = F("stock_quantity") - cart_item.quantity,
\* evaluated by the store on the row at the moment of the UPDATE.
NewStock(r, line) == StockSeen(r, line.product) - line.quantity

\* A failure that leaves the stock decrements made so far in the store.
AfterFailureKeepsStock(r) ==
  [stock |-> [p \in Products |-> StockSeen(r, p)], carts |-> carts, cartItems |-> cartItems,
   orders |-> orders, orderItems |-> orderItems]

\* What a failed create_from_cart leaves of its writes: transaction.atomic rolls back.
AfterFailure(r) == [stock |-> stock, carts |-> carts, cartItems |-> cartItems,
                    orders |-> orders, orderItems |-> orderItems]

Rollback(r) ==
  /\ stock' = AfterFailure(r).stock
  /\ carts' = AfterFailure(r).carts
  /\ cartItems' = AfterFailure(r).cartItems
  /\ orders' = AfterFailure(r).orders
  /\ orderItems' = AfterFailure(r).orderItems
  /\ UNCHANGED <<price, payments>>

\* views.py 115-123: one pass of the loop, cart_item.product.save(update_fields=...).
CoDecrement(r) ==
  /\ At(r, "co_dec")
  /\ LET line == rq[r].lines[rq[r].k] IN
     /\ ~ProductLocked(line.product, r)
     /\ IF StockCheckViolated(NewStock(r, line))
          THEN Finish(r, rq[r], "500_integrity_error", {}) /\ Rollback(r)
          ELSE /\ Goto(r, IF rq[r].k = Len(rq[r].lines) THEN "co_clear" ELSE "co_dec",
                       [rq[r] EXCEPT !.k = @ + 1,
                                     !.dec[line.product] = @ + line.quantity,
                                     !.newStock[line.product] = NewStock(r, line)])
               /\ UNCHANGED dbvars

\* views.py 125-130: OrderItem.objects.bulk_create, user_cart.save(update_fields=
\* ["is_active"]), which raises DatabaseError when the UPDATE matches no row,
\* and user_cart.items.all().delete(): a fresh DELETE ... WHERE cart_id, which
\* removes the rows committed at that moment.
CoClear(r) ==
  /\ At(r, "co_clear")
  /\ IF UniqueOrderItemViolated(rq[r].lines)
       THEN Finish(r, rq[r], "500_integrity_error", {}) /\ Rollback(r)
       ELSE IF ~\E c \in carts : c.id = rq[r].cart
       THEN Finish(r, rq[r], "500_database_error", {}) /\ Rollback(r)
       ELSE /\ ~CartLocked(rq[r].cart, r)
            /\ \A i \in ItemsOf(rq[r].cart) : ~ItemLocked(i.id, r)
            /\ Goto(r, "co_commit",
                    [rq[r] EXCEPT !.oitems = OrderItemsOf(rq[r].lines), !.cartOff = TRUE,
                                  !.delItems = {i.id : i \in ItemsOf(rq[r].cart)}])
            /\ UNCHANGED dbvars

\* Checkouts of other users that have read their products and not yet returned.
Rivals(r) ==
  {r2 \in Reqs \ {r} : pc[r2] \in {"co_dec", "co_clear", "co_commit"} /\ rq[r2].user # rq[r].user}

\* The Order row of a checkout's INSERT, with the primary key the store gives it.
OrderRow(id, o) == [o EXCEPT !.id = id]

OrderItemRows(id, oitems) ==
  {[order |-> id, product |-> oi.product, quantity |-> oi.quantity, price |-> oi.price] :
     oi \in oitems}

\* views.py 132 and the exit of transaction.atomic: the writes become visible
\* together.  (raced is a history flag: a checkout of another user committed
\* while this one was between reading the stock and returning.)
CoCommit(r) ==
  /\ At(r, "co_commit")
  /\ orders' = orders \cup {OrderRow(Min(FreeOrderIds), rq[r].order[1])}
  /\ orderItems' = orderItems \cup OrderItemRows(Min(FreeOrderIds), rq[r].oitems)
  /\ stock' = [p \in Products |-> StockSeen(r, p)]
  /\ carts' = {IF c.id = rq[r].cart THEN [c EXCEPT !.is_active = FALSE] ELSE c : c \in carts}
  /\ cartItems' = {i \in cartItems : i.id \notin rq[r].delItems}
  /\ pc' = [pc EXCEPT ![r] = "idle"]
  /\ rq' = [r2 \in Reqs |->
              IF r2 = r THEN IdleReq
              ELSE IF r2 \in Rivals(r) THEN [rq[r2] EXCEPT !.raced = TRUE]
              ELSE rq[r2]]
  /\ out' = [kind |-> "checkout", user |-> rq[r].user, resp |-> "201", detail |-> {},
             cart |-> rq[r].cart, product |-> "none", quantity |-> 0, raced |-> rq[r].raced]
  /\ UNCHANGED <<price, payments>>

\* The request dies inside the transaction (timeout, lost connection, store
\* error): nothing was committed and the store rolls the transaction back.
CoAbort(r) ==
  /\ pc[r] \in {"co_dec", "co_clear", "co_commit"}
  /\ UNCHANGED started
  /\ Finish(r, rq[r], "500_aborted", {})
  /\ Rollback(r)

----------------------------------------------------------------------------
(* PaymentViewSet.perform_create, preceded by PaymentSerializer validation *)

\* PaymentSerializer validation of a request that names an order of the store
\* (any user's): the unique validators of order (OneToOneField) and of
\* transaction_id.
PaymentInvalid(o, txn) ==
  IF \E y \in payments : y.order = o THEN "400_payment_exists"
  ELSE IF \E y \in payments : y.transaction_id = txn THEN "400_transaction_id"
  ELSE "ok"

\* A settlement that pays whatever the payment_status of the order is.
AlwaysEligible(x) == FALSE

\* views.py 175: order.payment_status != Order.PaymentStatus.PENDING
NotEligible(x) == x.payment_status # "pending"

\* views.py 170-176 on the Order object that validation read.
PayBegin(r, u, o, amount, txn) ==
  /\ Accept(r)
  /\ LET l == NewReq("pay", u)
         v == PaymentInvalid(o, txn) IN
     IF v # "ok" THEN Finish(r, l, v, {})
     ELSE \E x \in {y \in orders : y.id = o} :
            IF x.user # u THEN Finish(r, l, "403", {})
            ELSE IF NotEligible(x) THEN Finish(r, l, "400_not_eligible", {})
            ELSE Goto(r, "pay_write",
                      [l EXCEPT !.order = <<x>>,
                                !.pay = <<[order |-> o, amount |-> amount, transaction_id |-> txn,
                                           status |-> "succeeded"]>>])
  /\ UNCHANGED dbvars

\* A settlement that copies the amount paid into the order.
PaidOrderWithAmount(x, y) ==
  [x EXCEPT !.payment_status = "paid", !.status = "processing", !.total_amount = y.amount]

\* views.py 182-184: the columns that order.save(update_fields=...) writes.
PaidOrder(x, y) == [x EXCEPT !.payment_status = "paid", !.status = "processing"]

\* views.py 179-184 and the commit: the INSERT of the payment, which the store
\* rejects when the order has a payment, the transaction id is taken or the
\* order row is gone, and order.save(update_fields=["payment_status", "status",
\* "updated_at"]).
PayWrite(r) ==
  /\ At(r, "pay_write")
  /\ LET y == rq[r].pay[1] IN
     IF \/ \E z \in payments : z.order = y.order \/ z.transaction_id = y.transaction_id
        \/ ~\E x \in orders : x.id = y.order
       THEN /\ Finish(r, rq[r], "500_integrity_error", {})
            /\ UNCHANGED dbvars
       ELSE /\ payments' = payments \cup {y}
            /\ orders' = {IF x.id = y.order THEN PaidOrder(x, y) ELSE x : x \in orders}
            /\ Finish(r, rq[r], "201", {})
            /\ UNCHANGED <<stock, price, carts, cartItems, orderItems>>

----------------------------------------------------------------------------
(* OrderViewSet: the update and destroy of ModelViewSet, on an order of the store *)

\* OrderSerializer: user, shipping_address and billing_address are the
\* writable fields; status, total_amount and payment_status are read-only.
OrderPatches ==
  [field : {"user"}, value : Users]
    \cup [field : {"shipping_address", "billing_address"}, value : Addresses]

ApplyPatch(x, patch) ==
  IF patch.field = "user" THEN [x EXCEPT !.user = patch.value]
  ELSE IF patch.field = "shipping_address" THEN [x EXCEPT !.shipping_address = patch.value]
  ELSE [x EXCEPT !.billing_address = patch.value]

\* PATCH /orders/{id}/: get_object on get_queryset (the user's own orders) and
\* the serializer's update of the instance in memory.
OuLoad(r, u, o, patch) ==
  /\ Accept(r)
  /\ LET l == NewReq("order_update", u)
         own == {x \in orders : x.id = o /\ x.user = u} IN
     IF own = {} THEN Finish(r, l, "404", {})
     ELSE \E x \in own : Goto(r, "ou_save", [l EXCEPT !.order = <<ApplyPatch(x, patch)>>])
  /\ UNCHANGED dbvars

\* instance.save(): an UPDATE of every column with the values in memory, and
\* an INSERT when no row has the id.
OuSave(r) ==
  /\ At(r, "ou_save")
  /\ orders' = {x \in orders : x.id # rq[r].order[1].id} \cup {rq[r].order[1]}
  /\ Finish(r, rq[r], "200", {})
  /\ UNCHANGED <<stock, price, carts, cartItems, orderItems, payments>>

\* DELETE /orders/{id}/: the order, and by CASCADE its items and its payment.
OrderDelete(r, u, o) ==
  /\ Accept(r)
  /\ LET l == NewReq("order_delete", u) IN
     IF \E x \in orders : x.id = o /\ x.user = u
       THEN /\ orders' = {x \in orders : x.id # o}
            /\ orderItems' = {i \in orderItems : i.order # o}
            /\ payments' = {y \in payments : y.order # o}
            /\ Finish(r, l, "204", {})
            /\ UNCHANGED <<stock, price, carts, cartItems>>
       ELSE /\ Finish(r, l, "404", {})
            /\ UNCHANGED dbvars

----------------------------------------------------------------------------
(* CartViewSet: the update and destroy of ModelViewSet *)

\* PATCH /carts/{id}/: get_object on get_queryset (the user's active cart);
\* user is the one writable field of CartSerializer.
CuLoad(r, u, newUser) ==
  /\ Accept(r)
  /\ LET l == NewReq("cart_update", u) IN
     IF ActiveCarts(u) = {} THEN Finish(r, l, "404", {})
     ELSE \E c \in ActiveCarts(u) : Goto(r, "cu_save", [l EXCEPT !.cart = c.id, !.newUser = newUser])
  /\ UNCHANGED dbvars

\* instance.save(): an UPDATE of every column with the values in memory
\* (is_active as it was read), and an INSERT when no row has the id.
CuSave(r) ==
  /\ At(r, "cu_save")
  /\ ~CartLocked(rq[r].cart, r)
  /\ ~CartInsertPending(rq[r].newUser, r)
  /\ IF \E c \in ActiveCarts(rq[r].newUser) : c.id # rq[r].cart
       THEN /\ Finish(r, rq[r], "500_integrity_error", {})
            /\ UNCHANGED dbvars
       ELSE /\ carts' = {c \in carts : c.id # rq[r].cart}
                          \cup {[id |-> rq[r].cart, user |-> rq[r].newUser, is_active |-> TRUE]}
            /\ Finish(r, rq[r], "200", {})
            /\ UNCHANGED <<stock, price, cartItems, orders, orderItems, payments>>

\* DELETE /carts/{id}/: the cart, and by CASCADE its items.
CartDelete(r, u) ==
  /\ Accept(r)
  /\ LET l == NewReq("cart_delete", u) IN
     IF ActiveCarts(u) = {}
       THEN /\ Finish(r, l, "404", {})
            /\ UNCHANGED dbvars
       ELSE \E c \in ActiveCarts(u) :
              /\ ~CartLocked(c.id, r)
              /\ \A i \in ItemsOf(c.id) : ~ItemLocked(i.id, r)
              /\ carts' = carts \ {c}
              /\ cartItems' = cartItems \ ItemsOf(c.id)
              /\ Finish(r, [l EXCEPT !.cart = c.id], "204", {})
              /\ UNCHANGED <<stock, price, orders, orderItems, payments>>

----------------------------------------------------------------------------
(* ProductViewSet.perform_update: the seller changes a price or a stock. *)

Seller == "seller"

\* PATCH /products/{slug}/: get_object and the serializer's update of the
\* instance in memory; field is "price" or "stock_quantity".
PuLoad(r, p, field, value) ==
  /\ Accept(r)
  /\ Goto(r, "pu_save",
          [NewReq("product_update", Seller) EXCEPT
             !.product = p,
             !.pprice = IF field = "price" THEN value ELSE price[p],
             !.pstock = IF field = "stock_quantity" THEN value ELSE stock[p]])
  /\ UNCHANGED dbvars

\* views.py 130, serializer.save(): an UPDATE of every column of the product
\* with the values in memory; it waits for a transaction that wrote the row.
PuSave(r) ==
  /\ At(r, "pu_save")
  /\ ~ProductLocked(rq[r].product, r)
  /\ price' = [price EXCEPT ![rq[r].product] = rq[r].pprice]
  /\ stock' = [stock EXCEPT ![rq[r].product] = rq[r].pstock]
  /\ Finish(r, rq[r], "200", {})
  /\ UNCHANGED <<carts, cartItems, orders, orderItems, payments>>

----------------------------------------------------------------------------

\* The store when the requests that the model follows arrive: the seller has
\* priced and stocked the catalogue, and each user has or has not yet put
\* products in a cart (one unit per line, at the price they then had).
InitCarts(basket) ==
  {[id |-> UserIdx(u), user |-> u, is_active |-> TRUE] : u \in {v \in Users : basket[v] # {}}}

InitItems(basket, pr) ==
  {[id |-> 2 * (UserIdx(x[1]) - 1) + ProdIdx(x[2]), cart |-> UserIdx(x[1]), product |-> x[2],
    quantity |-> 1, price_at_time |-> pr] :
     x \in {y \in Users \X Products : y[2] \in basket[y[1]]}}

Init ==
  /\ \E s \in 0..MaxStock : stock = [p \in Products |-> s]
  /\ \E pr \in 0..MaxPrice, basket \in [Users -> SUBSET Products] :
       /\ price = [p \in Products |-> pr]
       /\ carts = InitCarts(basket)
       /\ cartItems = InitItems(basket, pr)
  /\ orders = {}
  /\ orderItems = {}
  /\ payments = {}
  /\ pc = [r \in Reqs |-> "idle"]
  /\ rq = [r \in Reqs |-> IdleReq]
  /\ out = NoOut
  /\ started = 0

Next ==
  \/ \E r \in Reqs, u \in Users : McGet(r, u)
  \/ \E r \in Reqs : McCreate(r)
  \/ \E r \in Reqs, u \in Users : CcCheck(r, u)
  \/ \E r \in Reqs : CcSave(r)
  \/ \E r \in Reqs, u \in Users, p \in Products, q \in 0..MaxQty : AiBegin(r, u, p, q)
  \/ \E r \in Reqs : AiCartCreate(r)
  \/ \E r \in Reqs : AiItem(r)
  \/ \E r \in Reqs : AiWrite(r)
  \/ \E r \in Reqs, u \in Users, id \in {i.id : i \in cartItems}, p \in Products \cup {NoProduct},
        q \in 0..MaxQty : IuLoad(r, u, id, p, q, NoCart)
  \/ \E r \in Reqs, u \in Users, id \in {i.id : i \in cartItems}, c \in {k.id : k \in carts} :
        IuLoad(r, u, id, NoProduct, 1, c)
  \/ \E r \in Reqs : IuSave(r)
  \/ \E r \in Reqs, u \in Users, id \in {i.id : i \in cartItems} : ItemDelete(r, u, id)
  \/ \E r \in Reqs, u \in Users, bill \in AddressInputs, ship \in AddressInputs :
        CoLoad(r, u, bill, ship)
  \/ \E r \in Reqs : CoDecrement(r)
  \/ \E r \in Reqs : CoClear(r)
  \/ \E r \in Reqs : CoCommit(r)
  \/ \E r \in Reqs : CoAbort(r)
  \/ \E r \in Reqs, u \in Users, o \in {x.id : x \in orders}, amount \in 0..MaxPrice,
        txn \in TransactionIds : PayBegin(r, u, o, amount, txn)
  \/ \E r \in Reqs : PayWrite(r)
  \/ \E r \in Reqs, u \in Users, o \in {x.id : x \in orders}, patch \in OrderPatches :
        OuLoad(r, u, o, patch)
  \/ \E r \in Reqs : OuSave(r)
  \/ \E r \in Reqs, u \in Users, o \in {x.id : x \in orders} : OrderDelete(r, u, o)
  \/ \E r \in Reqs, u \in Users, newUser \in Users : CuLoad(r, u, newUser)
  \/ \E r \in Reqs : CuSave(r)
  \/ \E r \in Reqs, u \in Users : CartDelete(r, u)
  \/ \E r \in Reqs, p \in Products, v \in 0..MaxPrice : PuLoad(r, p, "price", v)
  \/ \E r \in Reqs, p \in Products, v \in 0..MaxStock : PuLoad(r, p, "stock_quantity", v)
  \/ \E r \in Reqs : PuSave(r)

Spec == Init /\ [][Next]_vars

\* The store some time later: user u1 has made an order of one unit of p1
\* (create_from_cart) and has or has not paid it (PaymentViewSet.perform_create);
\* the seller has restocked, and the users have or have not filled new carts.
InitOrder(paid) ==
  [id |-> 1, user |-> "u1", shipping_address |-> "a1", billing_address |-> "a1",
   total_amount |-> MaxPrice,
   status |-> IF paid THEN "processing" ELSE "pending",
   payment_status |-> IF paid THEN "paid" ELSE "pending"]

InitStore(paid, row) ==
  /\ stock = [p \in Products |-> MaxStock]
  /\ price = [p \in Products |-> MaxPrice]
  /\ \E basket \in [Users -> SUBSET Products] :
       /\ carts = InitCarts(basket)
       /\ cartItems = InitItems(basket, MaxPrice)
  /\ orders = {InitOrder(paid)}
  /\ payments = IF row
                  THEN {[order |-> 1, amount |-> MaxPrice, transaction_id |-> "t1",
                         status |-> "succeeded"]}
                  ELSE {}
  /\ orderItems = {[order |-> 1, product |-> "p1", quantity |-> 1, price |-> MaxPrice]}
  /\ pc = [r \in Reqs |-> "idle"]
  /\ rq = [r \in Reqs |-> IdleReq]
  /\ out = NoOut
  /\ started = 0

InitWithOrder == \E paid \in BOOLEAN : InitStore(paid, paid)

SpecOrders == InitWithOrder /\ [][Next]_vars

\* The same, and the store in which a paid order has lost its payment row:
\* the owner's PATCH of the order re-inserted it after the owner's DELETE had
\* removed order and payment (OuLoad, OrderDelete, OuSave).
InitPaid == \E paid, row \in BOOLEAN : (row => paid) /\ InitStore(paid, row)

SpecPaid == InitPaid /\ [][Next]_vars

TypeOK ==
  /\ \A p \in Products : stock[p] \in Int /\ price[p] \in 0..MaxPrice
  /\ \A c \in carts : c.id \in CartIds
  /\ \A i \in cartItems : i.id \in ItemIds /\ i.quantity >= 1
  /\ \A o \in orders : o.id \in OrderIds
  /\ started \in 0..MaxRequests

----------------------------------------------------------------------------
(* Properties *)

RECURSIVE SumOrderItems(_)
\* The sum of quantity * price over a set of order items.
SumOrderItems(S) ==
  IF S = {} THEN 0
  ELSE LET i == CHOOSE x \in S : TRUE IN i.quantity * i.price + SumOrderItems(S \ {i})

RECURSIVE SumQuantity(_)
\* The sum of the quantities of a set of order items.
SumQuantity(S) ==
  IF S = {} THEN 0
  ELSE LET i == CHOOSE x \in S : TRUE IN i.quantity + SumQuantity(S \ {i})

\* The step returned 201 from create_from_cart.
CheckoutSucceeds == out'.kind = "checkout" /\ out'.resp = "201"

\* The step returned an error from create_from_cart, or the request died.
CheckoutFails == out'.kind = "checkout" /\ out'.resp # "201"

\* The step took a create_from_cart request in (every CoLoad step does).
CheckoutAccepted ==
  /\ started' # started
  /\ out'.kind = "checkout" \/ \E r \in Reqs : pc[r] = "idle" /\ pc'[r] = "co_dec"

\* Worker r took a create_from_cart request of user u in (every step of
\* CoLoad(r, u, bill, ship) does).
AcceptedFor(r, u) ==
  /\ pc[r] = "idle"
  /\ \/ pc'[r] = "co_dec" /\ rq'[r].user = u
     \/ pc'[r] = "idle" /\ out'.kind = "checkout" /\ out'.user = u

\* The orders that the step inserted, and the items of an order after the step.
NewOrders == {o \in orders' : \A x \in orders : x.id # o.id}
ItemsAfter(o) == {i \in orderItems' : i.order = o.id}

\* C1: every product's stock_quantity is >= 0 in every reachable state,
\* whatever create_from_cart calls run and however they interleave.
C1_StockNonNegative == \A p \in Products : stock[p] >= 0

\* A checkout that raced with another user's was stopped by the store, and the
\* product they competed for is sold out.
C1_Witness ==
  /\ out.kind = "checkout" /\ out.resp = "500_integrity_error" /\ out.raced
  /\ \E i \in ItemsOf(out.cart) : stock[i.product] = 0

\* C2: of two users' concurrent checkouts for the last unit of a product, the
\* one that loses fails with the InsufficientStock validation error (a 4xx).
C2_LoserGetsInsufficientStock ==
  (/\ out.kind = "checkout" /\ out.raced
   /\ out.resp \notin {"201", "500_aborted"}
   /\ \E i \in ItemsOf(out.cart) : stock[i.product] < i.quantity)
    => out.resp = "400_insufficient_stock"

\* C3: a create_from_cart that fails at any step, or dies inside its
\* transaction, changes nothing in the store: no order, no order item, no
\* stock, and the cart and its lines are as they were.
C3_AllOrNothing == [][CheckoutFails => dbvars' = dbvars]_vars

\* The decrement of a later line failed after the first line's had been made.
C3_Witness ==
  /\ out.kind = "checkout" /\ out.resp = "500_integrity_error"
  /\ \E i, j \in ItemsOf(out.cart) :
        /\ ProdIdx(i.product) < ProdIdx(j.product)
        /\ stock[i.product] >= i.quantity
        /\ stock[j.product] < j.quantity

\* The lines of user u's active cart that ask for more than the stock, as the
\* error has to report them.
Offending(u) ==
  {[product |-> i.product, available |-> stock[i.product]] :
     i \in {j \in cartItems : /\ \E c \in ActiveCarts(u) : j.cart = c.id
                                /\ j.quantity > stock[j.product]}}

\* C4: a create_from_cart that reaches the stock validation (the cart has
\* lines and the addresses resolve) while some line asks for more than its
\* product's stock fails with InsufficientStock, reports every such product
\* with its available quantity, and changes nothing in the store.
C4_BatchReport ==
  [][CheckoutAccepted =>
     \A r \in Reqs, u \in Users, bill \in Addresses \cup {NoAddr}, ship \in Addresses \cup {NoAddr} :
       (Offending(u) # {} /\ AddressesFound(u, bill, ship) /\ AcceptedFor(r, u)
          /\ CoLoad(r, u, bill, ship))
         => /\ out'.kind = "checkout" /\ out'.resp = "400_insufficient_stock"
            /\ out'.detail = Offending(u)
            /\ orders' = orders /\ stock' = stock /\ carts' = carts /\ cartItems' = cartItems]_vars

\* InsufficientStock naming two products at once, and no order made.
C4_Witness ==
  /\ out.kind = "checkout" /\ out.resp = "400_insufficient_stock"
  /\ Cardinality(out.detail) = 2
  /\ \A o \in orders : o.user # out.user

\* The unit price of a line as the specification has it: the snapshot whenever
\* the line has one, the product's price otherwise.
SnapshotPrice(line) ==
  IF line.price_at_time # NullPrice THEN line.price_at_time ELSE line.price

RECURSIVE SnapshotTotal(_)
SnapshotTotal(lines) ==
  IF lines = <<>> THEN 0
  ELSE Head(lines).quantity * SnapshotPrice(Head(lines)) + SnapshotTotal(Tail(lines))

\* C5: the total_amount of an order that create_from_cart creates is the sum
\* over the cart's lines of quantity * snapshot, whatever the snapshot's value,
\* and of quantity * product price only for a line without snapshot.
C5_TotalFromSnapshots ==
  [][CheckoutSucceeds =>
       \A r \in Reqs : (pc[r] = "co_commit" /\ pc'[r] = "idle") =>
          \A o \in NewOrders : o.total_amount = SnapshotTotal(rq[r].lines)]_vars

\* C6: when create_from_cart creates an order, the sum over the order's items
\* of quantity * price equals the order's total_amount.
C6_ItemsSumToTotal ==
  [][CheckoutSucceeds =>
       \E o \in NewOrders : SumOrderItems(ItemsAfter(o)) = o.total_amount]_vars

\* An order of two items with a total that is not zero.
C6_Witness ==
  /\ out.kind = "checkout" /\ out.resp = "201"
  /\ \E o \in orders :
        /\ o.user = out.user /\ o.total_amount > 0
        /\ Cardinality({i \in orderItems : i.order = o.id}) = 2

\* C7: the total_amount of an order that exists is the same after every step:
\* price changes, cart writes, order updates and payments leave it alone.
C7_TotalFixed ==
  [][\A o \in orders : \A o2 \in orders' : o2.id = o.id => o2.total_amount = o.total_amount]_vars

\* An order settled by a payment of another amount than its total.
C7_Witness ==
  \E o \in orders, y \in payments :
    y.order = o.id /\ o.payment_status = "paid" /\ y.amount # o.total_amount

\* C8: a successful create_from_cart takes from every product exactly the
\* quantity of the order's line for it, counted from the stock the store holds
\* when the decrement is applied, and leaves every other product's stock alone.
C8_RelativeDecrement ==
  [][CheckoutSucceeds =>
       \E o \in NewOrders : \A p \in Products :
          stock'[p] = stock[p] - SumQuantity({i \in ItemsAfter(o) : i.product = p})]_vars

\* An order of one product made after another user's checkout committed, with
\* the other product's stock still in place.
C8_Witness ==
  /\ out.kind = "checkout" /\ out.resp = "201" /\ out.raced
  /\ \E o \in orders :
        /\ o.user = out.user
        /\ \E p \in Products : {i.product : i \in {j \in orderItems : j.order = o.id}} = {p}
  /\ \E p \in Products : stock[p] = MaxStock

\* C9: when create_from_cart returns 201, the cart it used exists, is
\* inactive and has no lines.
C9_CartRetainedEmpty ==
  (out.kind = "checkout" /\ out.resp = "201")
    => \E c \in carts : c.id = out.cart /\ ~c.is_active /\ ItemsOf(c.id) = {}

\* C10: no user has two active carts in any reachable state.
C10_OneActiveCart == \A u \in Users : Cardinality(ActiveCarts(u)) <= 1

\* The unique index turned down a direct cart creation that had seen no
\* active cart, and the user has the one cart of the request that won.
C10_Witness ==
  /\ out.kind = "cart_create" /\ out.resp = "500_integrity_error"
  /\ Cardinality(ActiveCarts(out.user)) = 1

\* The worker whose request returned in this step.
Returned(r) == pc[r] # "idle" /\ pc'[r] = "idle"

\* The lines of a product in a cart, in a set of cart item rows.
LinesOf(rows, c, p) == {i \in rows : i.cart = c /\ i.product = p}

\* The step returned 201 from the add of a cart item.
AddSucceeds == out'.kind = "add_item" /\ out'.resp = "201"

\* A product appears in at most one line of a cart.
OneLinePerProduct(rows) == \A i, j \in rows : (i.cart = j.cart /\ i.product = j.product) => i.id = j.id

Existing(r) ==
  IF LinesOf(cartItems, rq[r].cart, rq[r].product) = {} THEN 0
  ELSE (CHOOSE i \in LinesOf(cartItems, rq[r].cart, rq[r].product) : TRUE).quantity

C13_UpdateChecksStock ==
  [][/\ \A r \in Reqs :
          (pc[r] = "iu_save" /\ Returned(r) /\ rq[r].quantity > rq[r].pstock)
            => out'.resp = "400_insufficient_stock" /\ cartItems' = cartItems
     /\ \A r \in Reqs :
          (pc[r] = "iu_save" /\ Returned(r) /\ out'.resp = "200")
            => \E j \in cartItems' : j.id = rq[r].item[1].id /\ j.quantity = rq[r].quantity
     /\ (out'.kind = "item_update" /\ out'.resp = "400_insufficient_stock")
          => dbvars' = dbvars]_vars

\* The kinds of the cart requests: my_cart, the cart's create, update and
\* delete, and the add, update and delete of a cart item.
CartKinds ==
  {"my_cart", "cart_create", "cart_update", "cart_delete", "add_item", "item_update",
   "item_delete"}

\* C14: no step of a cart request changes the stock of a product, whatever it
\* returns; of the cart and order requests only a create_from_cart that
\* returns 201 changes a stock (the seller's product update is the catalogue's).
C14_CartLeavesStock ==
  [][/\ (\E r \in Reqs : pc'[r] # pc[r] /\ (rq[r].kind \in CartKinds \/ rq'[r].kind \in CartKinds))
          => stock' = stock
     /\ out'.kind \in CartKinds => stock' = stock
     /\ stock' # stock => (CheckoutSucceeds \/ out'.kind = "product_update")]_vars

\* An add answered 201 put the whole stock of the product in the line, and
\* the stock is still there.
C14_Witness ==
  /\ out.kind = "add_item" /\ out.resp = "201"
  /\ \E i \in cartItems :
        /\ i.cart = out.cart /\ i.product = out.product
        /\ i.quantity = MaxStock /\ stock[i.product] = MaxStock

\* C15: a create_from_cart of a user who has no active cart, or whose active
\* cart has no lines, fails with EmptyCart whatever addresses it names, and
\* changes nothing in the store: no order, no cart, no line, no stock.
C15_EmptyCart ==
  [][CheckoutAccepted =>
     \A r \in Reqs, u \in Users, bill \in AddressInputs, ship \in AddressInputs :
       ((\A c \in ActiveCarts(u) : ItemsOf(c.id) = {}) /\ AcceptedFor(r, u)
          /\ CoLoad(r, u, bill, ship))
         => /\ out'.kind = "checkout" /\ out'.resp = "400_empty_cart"
            /\ dbvars' = dbvars]_vars

\* EmptyCart for a user whose active cart exists and has no lines.
C15_Witness ==
  /\ out.kind = "checkout" /\ out.resp = "400_empty_cart"
  /\ \E c \in ActiveCarts(out.user) : c.id = out.cart /\ ItemsOf(c.id) = {}
  /\ \A o \in orders : o.user # out.user

\* Address a is a row of the store and belongs to user u.
OwnAddress(u, a) == a \in Addresses /\ AddressUser(a) = u

\* User u has an active cart with lines.
HasLines(u) == \E c \in ActiveCarts(u) : ItemsOf(c.id) # {}

StatusEdges ==
  {<<"pending", "processing">>, <<"processing", "shipped">>, <<"shipped", "delivered">>,
   <<"pending", "canceled">>, <<"processing", "canceled">>}

PaymentEdges == {<<"pending", "paid">>, <<"pending", "failed">>, <<"paid", "refunded">>}

\* C17: an order that create_from_cart creates is in (pending, pending), and
\* no step of any request changes the status or the payment_status of an
\* order that exists otherwise than along the edges of the state machine.
C17_StatusMachine ==
  [][/\ CheckoutSucceeds =>
          \A o \in NewOrders : o.status = "pending" /\ o.payment_status = "pending"
     /\ \A o \in orders : \A o2 \in orders' : o2.id = o.id =>
          /\ o2.status = o.status \/ <<o.status, o2.status>> \in StatusEdges
          /\ o2.payment_status = o.payment_status
               \/ <<o.payment_status, o2.payment_status>> \in PaymentEdges]_vars

\* The step returned 201 from the creation of a payment.
PaymentSucceeds == out'.kind = "pay" /\ out'.resp = "201"

\* C18: after every step, an order in status processing has payment_status
\* paid and a payment with status succeeded; and a step after which an order
\* is in processing that was not so before is the step of a payment request
\* that returns 201 for that order.
C18_ProcessingOnlyByPayment ==
  [][\A o2 \in orders' :
       o2.status = "processing" =>
         /\ o2.payment_status = "paid"
         /\ \E y \in payments' : y.order = o2.id /\ y.status = "succeeded"
         /\ (~\E o \in orders : o.id = o2.id /\ o.status = "processing") => PaymentSucceeds]_vars

\* The step took a payment request in (every PayBegin step does).
PayAccepted ==
  /\ started' # started
  /\ out'.kind = "pay" \/ \E r \in Reqs : pc[r] = "idle" /\ pc'[r] = "pay_write"

\* The 400 answers that refuse to pay an order: the serializer's (the order
\* has a payment) and the view's (the order is not eligible for payment).
OrderNotPayable == {"400_payment_exists", "400_not_eligible"}

\* C19: a payment request of the owner, with a transaction id that is not
\* taken, for an order whose payment_status is not pending fails with
\* OrderNotPayable and changes nothing in the store: no payment is created
\* and the order is as it was.
C19_NotPayable ==
  [][PayAccepted =>
     \A r \in Reqs, x \in orders, amount \in 0..MaxPrice, txn \in TransactionIds :
       (/\ x.payment_status # "pending"
        /\ \A y \in payments : y.transaction_id # txn
        /\ PayBegin(r, x.user, x.id, amount, txn))
         => /\ out'.kind = "pay" /\ out'.resp \in OrderNotPayable
            /\ dbvars' = dbvars]_vars

\* The view refused the payment of a paid order that has no payment row.
C19_Witness ==
  /\ out.kind = "pay" /\ out.resp = "400_not_eligible"
  /\ \E x \in orders : x.user = out.user /\ x.payment_status = "paid"
  /\ payments = {}

\* C20: a payment request of a user who does not own the order is answered
\* 403 and changes nothing in the store: no payment is created and the order
\* is as it was.
C20_NotOwnerForbidden ==
  [][PayAccepted =>
     \A r \in Reqs, x \in orders, u \in Users, amount \in 0..MaxPrice, txn \in TransactionIds :
       (u # x.user /\ PayBegin(r, u, x.id, amount, txn))
         => /\ out'.kind = "pay" /\ out'.resp = "403"
            /\ dbvars' = dbvars]_vars

\* C21: the three marks of a settlement are set together: in every reachable
\* state an order either has a succeeded payment, payment_status paid and
\* status processing, or it has none of the three.
C21_SettledTogether ==
  \A x \in orders :
    LET succeeded == \E y \in payments : y.order = x.id /\ y.status = "succeeded"
        paid == x.payment_status = "paid"
        processing == x.status = "processing"
    IN \/ succeeded /\ paid /\ processing
       \/ ~succeeded /\ ~paid /\ ~processing

\* The 400 answers of PaymentSerializer to a transaction id that is taken:
\* the transaction_id error, reported next to the order error when the payment
\* that holds the id is the one of the order named.
DuplicateTransaction(o, txn) ==
  {"400_transaction_id"}
    \cup (IF \E y \in payments : y.order = o /\ y.transaction_id = txn
            THEN {"400_payment_exists"} ELSE {})

\* C22: a payment request whose transaction id is taken when the request is
\* validated, or has been taken by the time its payment is written, fails
\* with DuplicateTransaction and changes nothing in the store.
C22_DuplicateTransaction ==
  [][/\ PayAccepted =>
          \A r \in Reqs, x \in orders, u \in Users, amount \in 0..MaxPrice, txn \in TransactionIds :
            (/\ \E y \in payments : y.transaction_id = txn
             /\ PayBegin(r, u, x.id, amount, txn))
              => /\ out'.resp \in DuplicateTransaction(x.id, txn)
                 /\ dbvars' = dbvars
     /\ \A r \in Reqs :
          (/\ pc[r] = "pay_write" /\ Returned(r)
           /\ \E y \in payments : y.transaction_id = rq[r].pay[1].transaction_id)
            => /\ out'.resp \in DuplicateTransaction(rq[r].pay[1].order, rq[r].pay[1].transaction_id)
               /\ dbvars' = dbvars]_vars

\* C23: an order that exists exists after every step, and so does a payment.
C23_RowsPermanent ==
  [][/\ \A o \in orders : \E o2 \in orders' : o2.id = o.id
     /\ \A y \in payments :
          \E y2 \in payments' : y2.order = y.order /\ y2.transaction_id = y.transaction_id]_vars

\* C24: after every step each inactive cart has no lines, and a cart that
\* was inactive before the step is not active after it.
C24_InactiveCartFrozen ==
  [][/\ \A c \in carts' : ~c.is_active => {i \in cartItems' : i.cart = c.id} = {}
     /\ \A c \in carts : ~c.is_active => \A c2 \in carts' : c2.id = c.id => ~c2.is_active]_vars

\* The user whose request takes the step: the request taken in, or the one
\* whose worker executes its next statement.
Actors ==
  {rq'[r].user : r \in {r2 \in Reqs : pc[r2] = "idle" /\ pc'[r2] # "idle"}}
    \cup {rq[r].user : r \in {r2 \in Reqs : /\ pc[r2] # "idle"
                                           /\ (pc'[r2] # pc[r2] \/ rq'[r2].k # rq[r2].k)}}
    \cup (IF started' # started /\ out'.kind # "none" THEN {out'.user} ELSE {})

\* C25: a step of a request of user A leaves every cart of another user in
\* the store with its owner and its lines as they were, and every order of
\* another user as it was.
C25_OwnObjectsOnly ==
  [][\A a \in Actors :
       /\ \A c \in carts :
            c.user # a => /\ c \in carts'
                          /\ {i \in cartItems' : i.cart = c.id} = ItemsOf(c.id)
       /\ \A o \in orders : o.user # a => o \in orders']_vars

\* C26: the items of an order that create_from_cart creates are, one for
\* one, the lines that the call read from the cart: same product, same
\* quantity, price the line's snapshot (the product's price for a line without
\* snapshot), and no two items of the order have the same product.
C26_OrderLinesMirrorCart ==
  [][CheckoutSucceeds =>
       \A r \in Reqs : (pc[r] = "co_commit" /\ pc'[r] = "idle") =>
          \A o \in NewOrders :
            /\ ItemsAfter(o) =
                 {[order |-> o.id, product |-> rq[r].lines[n].product,
                   quantity |-> rq[r].lines[n].quantity,
                   price |-> SnapshotPrice(rq[r].lines[n])] : n \in DOMAIN rq[r].lines}
            /\ Cardinality(ItemsAfter(o)) = Len(rq[r].lines)
            /\ \A i, j \in ItemsAfter(o) : i.product = j.product => i = j]_vars

\* C27: a cart item request reads the price of its product from the store
\* when it is validated, and every line it writes (a new line, an incremented
\* line, an updated line) carries that price as its snapshot.
C27_SnapshotRefreshed ==
  [][\A r \in Reqs :
       /\ (pc[r] = "idle" /\ pc'[r] \in {"ai_item", "ai_cart_create", "iu_save"})
            => rq'[r].pprice = price[rq'[r].product]
       /\ (pc[r] = "ai_write" /\ Returned(r) /\ out'.resp = "201")
            => \E j \in cartItems' :
                 /\ j.cart = rq[r].cart /\ j.product = rq[r].product
                 /\ j.price_at_time = rq[r].pprice
       /\ (pc[r] = "iu_save" /\ Returned(r) /\ out'.resp = "200")
            => \E j \in cartItems' :
                 /\ j.id = rq[r].item[1].id /\ j.product = rq[r].product
                 /\ j.price_at_time = rq[r].pprice]_vars

\* An add incremented a line and refreshed its snapshot: the price had
\* changed, and the line of the product in the other cart has the old one.
C27_Witness ==
  /\ out.kind = "add_item" /\ out.resp = "201"
  /\ \E i \in cartItems :
        /\ i.cart = out.cart /\ i.product = out.product
        /\ i.quantity > out.quantity
        /\ i.price_at_time = price[i.product]
        /\ \E k \in cartItems : k.product = i.product /\ k.price_at_time # i.price_at_time

\* C28: a create_from_cart that returns 201 commits the order of a cart that
\* is active until that commit: no order has been made from the cart before,
\* and the stock has not been decremented for its lines before.
C28_OneOrderPerCart ==
  [][CheckoutSucceeds => \E c \in carts : c.id = out'.cart /\ c.is_active]_vars

\* C29: in every reachable state an order with payment_status paid has a
\* payment whose amount is the order's total_amount.
C29_PaidInFull ==
  \A x \in orders :
    x.payment_status = "paid"
      => \E y \in payments : y.order = x.id /\ y.amount = x.total_amount

\* C30: when an add has just returned 201 for a product of a cart and a
\* second add for the same product and cart, which overlapped it, returns 201
\* in the next step, the line's quantity after that step is its quantity
\* before it plus the quantity of the second add (so that the line holds the
\* sum of both adds), and it does not exceed the stock that the second add
\* checked against.
C30_NoLostAdd ==
  [][\A r \in Reqs :
       (/\ out.kind = "add_item" /\ out.resp = "201"
        /\ pc[r] = "ai_write" /\ Returned(r) /\ out'.resp = "201"
        /\ rq[r].cart = out.cart /\ rq[r].product = out.product)
         => \A i \in LinesOf(cartItems, rq[r].cart, rq[r].product) :
              \E j \in cartItems' :
                /\ j.id = i.id
                /\ j.quantity = i.quantity + rq[r].quantity
                /\ j.quantity <= rq[r].pstock]_vars

====
